---- MODULE Spec2Model ----
(***************************************************************************)
(* Model of the AI code review worker: the ReviewSession durable object    *)
(* (src/src/review-session.ts), the prompt builders (src/src/prompts.ts)   *)
(* and the request router (src/unnamed/part_001).                          *)
(*                                                                         *)
(* A store operation (one ReviewSession.fetch or method call) is one step: *)
(* the host runs at most one invocation per session key at a time.  A      *)
(* submit request takes three steps (up to the inference call, the         *)
(* inference call, the append and the response), so that requests overlap  *)
(* during the inference call.                                              *)
(***************************************************************************)
EXTENDS Integers, Sequences, FiniteSets, TLC

\* ---------------------------------------------------------------- bounds
NumKeys == 2            \* session keys (names of callers and generated ones)
MaxEntries == 2         \* entries built by direct calls of addReview
MaxTime == 2            \* readings of the clock (Date.now) range over 1..MaxTime
NumSlots == 2           \* requests the worker receives; slot r holds the r-th to arrive
MaxSeed == 2            \* entries a session holds when the worker's run starts

Keys == 1..NumKeys
Slots == 1..NumSlots
NoSessionId == 0        \* sessionId absent (undefined, null or "")
NoId == 0               \* no entry id

Codes == {"", "c1"}             \* "" is a missing code field
Languages == {"", "js"}         \* "" is a missing language field
Contexts == {"", "ctx"}         \* "" is an absent context
AIOutputs == {"fail", "", "r1"} \* env.AI.run throws, answers without text, answers a text
Faults == {"none", "get", "put"} \* outcome of the storage calls of one store operation

VARIABLES
    stored,     \* stored[k]: <<>> or <<SessionState>>, ctx.storage of key k ('state')
    inst,       \* inst[k]: <<>> (no object in memory) or <<this.state>> of the object
    now,        \* Date.now()
    nextId,     \* next ReviewEntry id
    used,       \* the session keys named so far (crypto.randomUUID avoids them)
    req,        \* req[r]: the router request in slot r, its locals and its response
    last,       \* the last direct call of a session method: name, key, argument
                \* (the id given to getReview), outcome, result
    hist        \* history: built[id] (key and outcome of the addReview that built
                \* entry id), cleared (keys on which clearReviews ran), created[k]
                \* (the createdAt first persisted for key k, 0 if none)

vars == <<stored, inst, now, nextId, used, req, last, hist>>

\* ------------------------------------------------------------ prompts.ts
\* A prompt is the sequence of its template pieces and interpolated values.
createCodeReviewPrompt(code, language, context) ==
    LET head == <<"Please review the following ", language, " code:", language, code>>
        mid == IF context # "" THEN <<"Additional context: ", context>> ELSE <<>>
    IN head \o mid \o <<"Provide a comprehensive code review">>

createFollowUpPrompt(previousReview, newCode, language) ==
    <<"Based on your previous review:", previousReview,
      "The code has been updated to:", language, newCode,
      "Please review the changes">>

\* ------------------------------------------------------ review-session.ts
\* this.state as the constructor leaves it
Constructor(t) == [reviews |-> <<>>, createdAt |-> t, lastAccessedAt |-> t]

\* this.state of the object serving key k: the object in memory, or a new one
Live(k) == IF inst[k] = <<>> THEN Constructor(now) ELSE inst[k][1]

\* Mutant of initialize: the persisted state is never loaded
initializeNoLoad(st, k) == st

\* initialize(): this.state after the load
initialize(st, k) ==
    IF stored[k] # <<>>
    THEN [stored[k][1] EXCEPT !.lastAccessedAt = now]
    ELSE st

NoMeta == <<>>
Result(mem, disk, fault, out, meta) ==
    [mem |-> mem, disk |-> disk, fault |-> fault, out |-> out, meta |-> meta]

NewEntry(code, language, review, context) ==
    [id |-> nextId, timestamp |-> now, code |-> code, language |-> language,
     review |-> review, context |-> context]

\* Mutant of addReview: the load is left out, as it is in clearReviews
addReviewNoLoad(k, code, language, review, context, fault) ==
    LET s0 == Live(k)
        entry == NewEntry(code, language, review, context)
        s2 == [s0 EXCEPT !.reviews = Append(@, entry), !.lastAccessedAt = now]
    IN  CASE fault = "get" -> Result(s0, stored[k], fault, <<>>, NoMeta)
          [] fault = "put" -> Result(s2, stored[k], fault, <<>>, NoMeta)
          [] OTHER -> Result(s2, <<s2>>, fault, <<entry>>, NoMeta)

\* Mutant of addReview: an object already in memory appends without the load
addReviewCached(k, code, language, review, context, fault) ==
    LET s0 == Live(k)
        s1 == IF inst[k] # <<>> THEN s0 ELSE initialize(s0, k)
        entry == NewEntry(code, language, review, context)
        s2 == [s1 EXCEPT !.reviews = Append(@, entry), !.lastAccessedAt = now]
    IN  CASE fault = "get" -> Result(s0, stored[k], fault, <<>>, NoMeta)
          [] fault = "put" -> Result(s2, stored[k], fault, <<>>, NoMeta)
          [] OTHER -> Result(s2, <<s2>>, fault, <<entry>>, NoMeta)

\* addReview: the object's state, the persisted state and the entry returned
addReview(k, code, language, review, context, fault) ==
    LET s0 == Live(k)
        s1 == initialize(s0, k)
        entry == NewEntry(code, language, review, context)
        s2 == [s1 EXCEPT !.reviews = Append(@, entry), !.lastAccessedAt = now]
    IN  CASE fault = "get" -> Result(s0, stored[k], fault, <<>>, NoMeta)
          [] fault = "put" -> Result(s2, stored[k], fault, <<>>, NoMeta)
          [] OTHER -> Result(s2, <<s2>>, fault, <<entry>>, NoMeta)

getReviews(k, fault) ==
    LET s0 == Live(k)
        s1 == initialize(s0, k)
        s2 == [s1 EXCEPT !.lastAccessedAt = now]
    IN  CASE fault = "get" -> Result(s0, stored[k], fault, <<>>, NoMeta)
          [] fault = "put" -> Result(s2, stored[k], fault, <<>>, NoMeta)
          [] OTHER -> Result(s2, <<s2>>, fault, s2.reviews, NoMeta)

\* Mutant of getReview: without a match the latest entry is returned
getReviewOrLatest(k, id, fault) ==
    LET s0 == Live(k)
        s1 == initialize(s0, k)
        hit == {i \in 1..Len(s1.reviews) : s1.reviews[i].id = id}
        first == CHOOSE i \in hit : \A j \in hit : i <= j
    IN  IF fault = "get" THEN Result(s0, stored[k], fault, <<>>, NoMeta)
        ELSE Result(s1, stored[k], fault,
                    IF hit # {} THEN <<s1.reviews[first]>>
                    ELSE IF Len(s1.reviews) = 0 THEN <<>>
                    ELSE <<s1.reviews[Len(s1.reviews)]>>, NoMeta)

\* getReview, getLatestReview, getMetadata: no put, so fault is "none" or "get"
getReview(k, id, fault) ==
    LET s0 == Live(k)
        s1 == initialize(s0, k)
        hit == {i \in 1..Len(s1.reviews) : s1.reviews[i].id = id}
        first == CHOOSE i \in hit : \A j \in hit : i <= j
    IN  IF fault = "get" THEN Result(s0, stored[k], fault, <<>>, NoMeta)
        ELSE Result(s1, stored[k], fault,
                    IF hit = {} THEN <<>> ELSE <<s1.reviews[first]>>, NoMeta)

\* Mutant of getLatestReview: the first entry of the list
getLatestReviewFirst(k, fault) ==
    LET s0 == Live(k)
        s1 == initialize(s0, k)
    IN  IF fault = "get" THEN Result(s0, stored[k], fault, <<>>, NoMeta)
        ELSE Result(s1, stored[k], fault,
                    IF Len(s1.reviews) = 0 THEN <<>> ELSE <<s1.reviews[1]>>, NoMeta)

getLatestReview(k, fault) ==
    LET s0 == Live(k)
        s1 == initialize(s0, k)
    IN  IF fault = "get" THEN Result(s0, stored[k], fault, <<>>, NoMeta)
        ELSE Result(s1, stored[k], fault,
                    IF Len(s1.reviews) = 0 THEN <<>>
                    ELSE <<s1.reviews[Len(s1.reviews)]>>, NoMeta)

\* Mutant of getMetadata: the loaded state is put back, as getReviews does
getMetadataPut(k, fault) ==
    LET s0 == Live(k)
        s1 == initialize(s0, k)
    IN  IF fault = "get" THEN Result(s0, stored[k], fault, <<>>, NoMeta)
        ELSE Result(s1, <<s1>>, fault, <<>>,
                    <<[reviewCount |-> Len(s1.reviews), createdAt |-> s1.createdAt,
                       lastAccessedAt |-> s1.lastAccessedAt]>>)

getMetadata(k, fault) ==
    LET s0 == Live(k)
        s1 == initialize(s0, k)
    IN  IF fault = "get" THEN Result(s0, stored[k], fault, <<>>, NoMeta)
        ELSE Result(s1, stored[k], fault, <<>>,
                    <<[reviewCount |-> Len(s1.reviews), createdAt |-> s1.createdAt,
                       lastAccessedAt |-> s1.lastAccessedAt]>>)

\* Mutant of clearReviews: the list is reset in memory and the put is left out
clearReviewsNoPut(k, fault) ==
    LET s0 == Live(k)
        s2 == [s0 EXCEPT !.reviews = <<>>, !.lastAccessedAt = now]
    IN  Result(s2, stored[k], fault, <<>>, NoMeta)

\* clearReviews: no initialize(), so fault is "none" or "put"
clearReviews(k, fault) ==
    LET s0 == Live(k)
        s2 == [s0 EXCEPT !.reviews = <<>>, !.lastAccessedAt = now]
    IN  IF fault = "put" THEN Result(s2, stored[k], fault, <<>>, NoMeta)
        ELSE Result(s2, <<s2>>, fault, <<>>, NoMeta)

\* The effect on key k of one store operation op called for the session name addr
Apply(k, addr, op, res) ==
    /\ inst' = [inst EXCEPT ![k] = <<res.mem>>]
    /\ stored' = [stored EXCEPT ![k] = res.disk]
    /\ hist' = [built |-> IF op = "addReview" /\ res.fault # "get"
                          THEN Append(hist.built, [key |-> addr, ok |-> res.fault = "none"])
                          ELSE hist.built,
                cleared |-> IF op = "clearReviews" THEN hist.cleared \cup {k}
                            ELSE hist.cleared,
                created |-> IF stored[k] = <<>> /\ res.disk # <<>>
                            THEN [hist.created EXCEPT ![k] = res.disk[1].createdAt]
                            ELSE hist.created]
    /\ nextId' = IF op = "addReview" /\ res.fault # "get" THEN nextId + 1 ELSE nextId

\* A direct call of a method: its effect, and the result handed to the caller
Call(k, op, arg, res) ==
    /\ Apply(k, k, op, res)
    /\ last' = [op |-> op, key |-> k, arg |-> arg, fault |-> res.fault,
                out |-> res.out, meta |-> res.meta]

\* Mutant of fetch: the caught error is answered as a JSON body
fetchJsonError(res) ==
    [status |-> IF res.fault = "none" THEN 200 ELSE 500, json |-> TRUE, out |-> res.out]

\* ReviewSession.fetch: the Response of the object for one operation.  An error
\* caught by the try block is answered as text ("Error: ..."), status 500.
fetch(res) ==
    IF res.fault = "none"
    THEN [status |-> 200, json |-> TRUE, out |-> res.out]
    ELSE [status |-> 500, json |-> FALSE, out |-> <<>>]

\* ---------------------------------------------------------------- router
NoResp ==
    [status |-> 0, sessionId |-> NoSessionId, review |-> "", reviewId |-> NoId,
     isFollowUp |-> FALSE, reviews |-> <<>>, success |-> FALSE, timestamp |-> 0]

\* A request: its inputs, the locals of its handler, and for the record the call
\* that made it fail (cause), the status of the session's last answer (answer),
\* the ids of the entries it appended (appended) and its response (resp)
NoCause == <<"none", "none">>
IdleReq ==
    [pc |-> "idle", kind |-> "none", code |-> "", language |-> "", context |-> "",
     sessionId |-> NoSessionId, key |-> 0, reviews |-> <<>>, isFollowUp |-> FALSE,
     prompt |-> <<>>, review |-> "", appended |-> <<>>, cause |-> NoCause,
     answer |-> 0, resp |-> NoResp]

\* The responses of the worker
BadRequest == [NoResp EXCEPT !.status = 400]
InternalServerError == [NoResp EXCEPT !.status = 500]

\* crypto.randomUUID() for a session: a key nobody has named yet
FreshKeys == Keys \ used
randomUUID ==
    IF FreshKeys = {} THEN {} ELSE {CHOOSE k \in FreshKeys : \A j \in FreshKeys : k <= j}

\* Session names a caller sends: one named before, or a new one (new names are
\* interchangeable, so the first free key stands for all of them)
Names == used \cup randomUUID

\* The next request to arrive takes the first slot not yet taken
Free(r) == req[r].pc = "idle" /\ (IF r = 1 THEN TRUE ELSE req[r - 1].pc # "idle")

\* The handler has returned: its locals are gone, the inputs and the response stay
Done(kind, q, cause, answer, resp) ==
    [IdleReq EXCEPT !.pc = "done", !.kind = kind, !.code = q.code,
                    !.language = q.language, !.sessionId = q.sessionId, !.key = q.key,
                    !.cause = cause, !.answer = answer, !.resp = resp]

\* The inputs of a list or clear request
Target(sessionId, key) ==
    [code |-> "", language |-> "", sessionId |-> sessionId, key |-> key]

\* The session name a request is addressed to: the caller's, or the generated one
Addr(q) == IF q.sessionId # NoSessionId THEN q.sessionId ELSE q.key

\* Mutant of sessionKey: every request goes to one and the same session
sessionKeyShared(sessionId, uuid) == 1

\* const sessionKey = sessionId || crypto.randomUUID()
sessionKey(sessionId, uuid) == IF sessionId # NoSessionId THEN sessionId ELSE uuid

\* Mutant of latestReview: the first entry of the list
latestReviewFirst(reviews) == reviews[1]

\* const latestReview = reviews[reviews.length - 1]
latestReview(reviews) == reviews[Len(reviews)]

\* the user prompt of handleReviewRequest
userPrompt(reviews, code, language, context) ==
    IF Len(reviews) > 0
    THEN createFollowUpPrompt(latestReview(reviews).review, code, language)
    ELSE createCodeReviewPrompt(code, language, context)

\* (aiResponse as any).response || JSON.stringify(aiResponse)
reviewText(out) == IF out # "" THEN out ELSE "json"

\* The request after GET /reviews of a valid submit: the session's answer is
\* parsed (a text body makes json() throw) and the prompt is chosen
AfterReviews(code, language, context, sessionId, k, res) ==
    LET rsp == fetch(res)
    IN  IF rsp.json /\ res.fault = "none"
        THEN [IdleReq EXCEPT !.pc = "ai", !.kind = "submit", !.code = code,
                 !.language = language, !.context = context,
                 !.sessionId = sessionId, !.key = k, !.reviews = rsp.out,
                 !.isFollowUp = Len(rsp.out) > 0, !.answer = rsp.status,
                 !.prompt = userPrompt(rsp.out, code, language, context)]
        ELSE Done("submit", [code |-> code, language |-> language,
                             sessionId |-> sessionId, key |-> k],
                  <<"reviews", res.fault>>, rsp.status, InternalServerError)

\* Mutant of SubmitStart: the fields are checked after the session was asked
SubmitStartLate(r, code, language, context, sessionId, uuid, fault) ==
    /\ Free(r)
    /\ LET k == IF sessionKey(sessionId, uuid) # NoSessionId
                THEN sessionKey(sessionId, uuid) ELSE 1
           res == getReviews(k, fault)
       IN  /\ Apply(k, Addr([sessionId |-> sessionId, key |-> k]), "getReviews", res)
           /\ used' = used \cup {k}
           /\ req' = [req EXCEPT ![r] =
                   IF code = "" \/ language = ""
                   THEN Done("submit", [code |-> code, language |-> language,
                                        sessionId |-> NoSessionId, key |-> 0],
                             NoCause, 0, BadRequest)
                   ELSE AfterReviews(code, language, context, sessionId, k, res)]
    /\ UNCHANGED <<now, last>>

\* handleReviewRequest up to the inference call: the check of the body, the
\* session key, GET /reviews on the session and the choice of the prompt
SubmitStart(r, code, language, context, sessionId, uuid, fault) ==
    /\ Free(r)
    /\ IF code = "" \/ language = ""
       THEN /\ req' = [req EXCEPT ![r] =
                    Done("submit", [code |-> code, language |-> language,
                                    sessionId |-> NoSessionId, key |-> 0],
                         NoCause, 0, BadRequest)]
            /\ UNCHANGED <<stored, inst, used, nextId, hist>>
       ELSE LET k == sessionKey(sessionId, uuid)
                res == getReviews(k, fault)
            IN  /\ Apply(k, Addr([sessionId |-> sessionId, key |-> k]), "getReviews", res)
                /\ used' = used \cup {k}
                /\ req' = [req EXCEPT ![r] =
                        AfterReviews(code, language, context, sessionId, k, res)]
    /\ UNCHANGED <<now, last>>

\* Mutant of SubmitAI: a failed inference call is taken for an answer without text
SubmitAINoThrow(r, out) ==
    /\ req[r].kind = "submit" /\ req[r].pc = "ai"
    /\ req' = [req EXCEPT ![r].pc = "add",
                  ![r].cause = IF out = "fail" THEN <<"ai", "none">> ELSE NoCause,
                  ![r].review = IF out = "fail" THEN "json" ELSE reviewText(out)]
    /\ UNCHANGED <<stored, inst, now, nextId, used, last, hist>>

\* env.AI.run: it throws, or its answer gives the review text
SubmitAI(r, out) ==
    /\ req[r].kind = "submit" /\ req[r].pc = "ai"
    /\ IF out = "fail"
       THEN req' = [req EXCEPT ![r] =
                Done("submit", req[r], <<"ai", "none">>,
                     req[r].answer, InternalServerError)]
       ELSE req' = [req EXCEPT ![r].pc = "add", ![r].review = reviewText(out)]
    /\ UNCHANGED <<stored, inst, now, nextId, used, last, hist>>

\* Mutant of SubmitAdd: the response carries a new uuid, not the stored entry's id
SubmitAddNewId(r, fault) ==
    /\ req[r].kind = "submit" /\ req[r].pc = "add"
    /\ LET q == req[r]
           res == addReview(q.key, q.code, q.language, q.review, q.context, fault)
           rsp == fetch(res)
           cause == IF fault = "none" THEN q.cause ELSE <<"add", fault>>
       IN  /\ Apply(q.key, Addr(q), "addReview", res)
           /\ req' = [req EXCEPT ![r] =
                   IF rsp.json
                   THEN [Done("submit", q, cause, rsp.status,
                              [NoResp EXCEPT !.status = 200, !.sessionId = q.key,
                                  !.review = q.review, !.reviewId = nextId + 1,
                                  !.isFollowUp = q.isFollowUp, !.timestamp = now])
                         EXCEPT !.reviews = q.reviews,
                                !.appended = IF res.fault = "none" THEN <<nextId>> ELSE <<>>]
                   ELSE Done("submit", q, cause, rsp.status,
                             InternalServerError)]
    /\ UNCHANGED <<now, used, last>>

\* Mutant of SubmitAdd: the error of json() is not caught, the request gets no
\* response
SubmitAddUncaught(r, fault) ==
    /\ req[r].kind = "submit" /\ req[r].pc = "add"
    /\ LET q == req[r]
           res == addReview(q.key, q.code, q.language, q.review, q.context, fault)
           rsp == fetch(res)
           cause == IF fault = "none" THEN q.cause ELSE <<"add", fault>>
           reviewId == IF rsp.out # <<>> THEN rsp.out[1].id ELSE nextId + 1
       IN  /\ Apply(q.key, Addr(q), "addReview", res)
           /\ req' = [req EXCEPT ![r] =
                   IF rsp.json
                   THEN [Done("submit", q, cause, rsp.status,
                              [NoResp EXCEPT !.status = 200, !.sessionId = q.key,
                                  !.review = q.review, !.reviewId = reviewId,
                                  !.isFollowUp = q.isFollowUp, !.timestamp = now])
                         EXCEPT !.reviews = q.reviews,
                                !.appended = IF res.fault = "none" THEN <<nextId>> ELSE <<>>]
                   ELSE [q EXCEPT !.pc = "thrown", !.cause = cause, !.answer = rsp.status]]
    /\ UNCHANGED <<now, used, last>>

\* POST /add-review on the session, then the response of the worker
SubmitAdd(r, fault) ==
    /\ req[r].kind = "submit" /\ req[r].pc = "add"
    /\ LET q == req[r]
           res == addReview(q.key, q.code, q.language, q.review, q.context, fault)
           rsp == fetch(res)
           cause == IF fault = "none" THEN q.cause ELSE <<"add", fault>>
           \* storedEntry.id || crypto.randomUUID()
           reviewId == IF rsp.out # <<>> THEN rsp.out[1].id ELSE nextId + 1
       IN  /\ Apply(q.key, Addr(q), "addReview", res)
           /\ req' = [req EXCEPT ![r] =
                   IF rsp.json
                   THEN [Done("submit", q, cause, rsp.status,
                              [NoResp EXCEPT !.status = 200, !.sessionId = q.key,
                                  !.review = q.review, !.reviewId = reviewId,
                                  !.isFollowUp = q.isFollowUp, !.timestamp = now])
                         EXCEPT !.reviews = q.reviews,
                                !.appended = IF res.fault = "none" THEN <<nextId>> ELSE <<>>]
                   ELSE Done("submit", q, cause, rsp.status,
                             InternalServerError)]
    /\ UNCHANGED <<now, used, last>>

\* Mutant of ListReviews: without a sessionId the first session is listed
ListReviewsDefault(r, sessionId, fault) ==
    /\ Free(r)
    /\ LET k == IF sessionId = NoSessionId THEN 1 ELSE sessionId
           res == getReviews(k, fault)
           rsp == fetch(res)
       IN  /\ Apply(k, k, "getReviews", res)
           /\ used' = used \cup {k}
           /\ req' = [req EXCEPT ![r] =
                   IF sessionId = NoSessionId
                   THEN Done("list", Target(sessionId, k), NoCause, rsp.status, BadRequest)
                   ELSE IF rsp.json
                   THEN Done("list", Target(sessionId, k), NoCause, rsp.status,
                             [NoResp EXCEPT !.status = 200, !.reviews = rsp.out])
                   ELSE Done("list", Target(sessionId, k), <<"reviews", fault>>, rsp.status,
                             InternalServerError)]
    /\ UNCHANGED <<now, last>>

\* handleGetReviews: the check of the parameter, GET /reviews on the session and
\* the response, which passes the session's answer on
ListReviews(r, sessionId, fault) ==
    /\ Free(r)
    /\ IF sessionId = NoSessionId
       THEN /\ req' = [req EXCEPT ![r] =
                    Done("list", Target(sessionId, 0), NoCause, 0, BadRequest)]
            /\ UNCHANGED <<stored, inst, used, nextId, hist>>
       ELSE LET res == getReviews(sessionId, fault)
                rsp == fetch(res)
            IN  /\ Apply(sessionId, sessionId, "getReviews", res)
                /\ used' = used \cup {sessionId}
                /\ req' = [req EXCEPT ![r] =
                        IF rsp.json
                        THEN Done("list", Target(sessionId, sessionId), NoCause, rsp.status,
                                  [NoResp EXCEPT !.status = 200, !.reviews = rsp.out])
                        ELSE Done("list", Target(sessionId, sessionId), <<"reviews", fault>>,
                                  rsp.status, InternalServerError)]
    /\ UNCHANGED <<now, last>>

\* handleClearSession: the check of the body, POST /clear on the session and the
\* response, which passes the session's answer on
ClearSession(r, sessionId, fault) ==
    /\ Free(r)
    /\ IF sessionId = NoSessionId
       THEN /\ req' = [req EXCEPT ![r] =
                    Done("clear", Target(sessionId, 0), NoCause, 0, BadRequest)]
            /\ UNCHANGED <<stored, inst, used, nextId, hist>>
       ELSE LET res == clearReviews(sessionId, fault)
                rsp == fetch(res)
            IN  /\ Apply(sessionId, sessionId, "clearReviews", res)
                /\ used' = used \cup {sessionId}
                /\ req' = [req EXCEPT ![r] =
                        IF rsp.json
                        THEN Done("clear", Target(sessionId, sessionId), NoCause, rsp.status,
                                  [NoResp EXCEPT !.status = 200, !.success = TRUE])
                        ELSE Done("clear", Target(sessionId, sessionId), <<"clear", fault>>,
                                  rsp.status, InternalServerError)]
    /\ UNCHANGED <<now, last>>

\* ------------------------------------------- calls of the object's methods
AddReview(k, code, language, review, context, fault) ==
    /\ nextId <= MaxEntries
    /\ Call(k, "addReview", NoId, addReview(k, code, language, review, context, fault))
    /\ UNCHANGED <<now, used, req>>

GetReviews(k, fault) ==
    /\ Call(k, "getReviews", NoId, getReviews(k, fault))
    /\ UNCHANGED <<now, used, req>>

GetReview(k, id, fault) ==
    /\ Call(k, "getReview", id, getReview(k, id, fault))
    /\ UNCHANGED <<now, used, req>>

GetLatestReview(k, fault) ==
    /\ Call(k, "getLatestReview", NoId, getLatestReview(k, fault))
    /\ UNCHANGED <<now, used, req>>

GetMetadata(k, fault) ==
    /\ Call(k, "getMetadata", NoId, getMetadata(k, fault))
    /\ UNCHANGED <<now, used, req>>

ClearReviews(k, fault) ==
    /\ Call(k, "clearReviews", NoId, clearReviews(k, fault))
    /\ UNCHANGED <<now, used, req>>

\* ------------------------------------------------------------ environment
\* The host discards the object of key k; the next call constructs a new one.
Evict(k) ==
    /\ inst[k] # <<>>
    /\ inst' = [inst EXCEPT ![k] = <<>>]
    /\ UNCHANGED <<stored, now, nextId, used, req, last, hist>>

Tick ==
    /\ now < MaxTime
    /\ now' = now + 1
    /\ UNCHANGED <<stored, inst, nextId, used, req, last, hist>>

NoOp == [op |-> "none", key |-> 0, arg |-> NoId, fault |-> "none", out |-> <<>>, meta |-> NoMeta]

\* A session that earlier requests left behind: n entries, the object not in memory
SeedEntry(i) ==
    [id |-> i, timestamp |-> 1, code |-> "c1", language |-> "js",
     review |-> IF i % 2 = 1 THEN "r1" ELSE "json", context |-> ""]

SeedState(n) ==
    [reviews |-> [i \in 1..n |-> SeedEntry(i)], createdAt |-> 1, lastAccessedAt |-> 1]

\* The worker starts with one session that is new or holds MaxSeed entries
Init ==
    /\ \E s \in {<<>>, <<SeedState(MaxSeed)>>} :
          /\ stored = [k \in Keys |-> IF k = 1 THEN s ELSE <<>>]
          /\ used = IF s = <<>> THEN {} ELSE {1}
          /\ hist = [built |-> [i \in 1..MaxSeed |-> [key |-> 1, ok |-> TRUE]],
                     cleared |-> {},
                     created |-> [k \in Keys |-> IF k = 1 /\ s # <<>> THEN 1 ELSE 0]]
    /\ inst = [k \in Keys |-> <<>>]
    /\ now = 1
    /\ nextId = MaxSeed + 1
    /\ req = [r \in Slots |-> IdleReq]
    /\ last = NoOp

\* The worker: requests of callers, served by the router and the sessions
Next ==
    \/ \E r \in Slots, c \in Codes, l \in Languages, x \in Contexts,
          s \in {NoSessionId} \cup Names, u \in randomUUID \cup {NoSessionId},
          f \in Faults :
            /\ (u = NoSessionId) = (s # NoSessionId \/ c = "" \/ l = "")
            /\ (c = "" \/ l = "") => (f = "none" /\ x = "")
            /\ SubmitStart(r, c, l, x, s, u, f)
    \/ \E r \in Slots, o \in AIOutputs : SubmitAI(r, o)
    \/ \E r \in Slots, f \in Faults : SubmitAdd(r, f)
    \/ \E r \in Slots, s \in {NoSessionId} \cup Names, f \in Faults :
          /\ s = NoSessionId => f = "none"
          /\ ListReviews(r, s, f)
    \/ \E r \in Slots, s \in {NoSessionId} \cup Names, f \in {"none", "put"} :
          /\ s = NoSessionId => f = "none"
          /\ ClearSession(r, s, f)
    \/ \E k \in Keys : Evict(k)

Spec == Init /\ [][Next]_vars

\* The worker when every inference call and every call of a session returns:
\* a handler that awaits one of them takes its next step
Fairness ==
    \A r \in Slots :
        /\ WF_vars(\E o \in AIOutputs : SubmitAI(r, o))
        /\ WF_vars(\E f \in Faults : SubmitAdd(r, f))

SpecLive == Spec /\ Fairness

\* One session object alone, from its first use on: any sequence of calls of its
\* methods, with the clock advancing
ReviewTexts == {"r1", "json"}
StoreKeys == {1}

InitStore ==
    /\ stored = [k \in Keys |-> <<>>]
    /\ inst = [k \in Keys |-> <<>>]
    /\ now = 1
    /\ nextId = 1
    /\ used = {}
    /\ req = [r \in Slots |-> IdleReq]
    /\ last = NoOp
    /\ hist = [built |-> <<>>, cleared |-> {}, created |-> [k \in Keys |-> 0]]

NextStore ==
    \/ \E k \in StoreKeys, x \in Contexts, t \in ReviewTexts, f \in Faults :
          AddReview(k, "c1", "js", t, x, f)
    \/ \E k \in StoreKeys, f \in Faults : GetReviews(k, f)
    \/ \E k \in StoreKeys, i \in 1..MaxEntries, f \in {"none", "get"} : GetReview(k, i, f)
    \/ \E k \in StoreKeys, f \in {"none", "get"} : GetLatestReview(k, f)
    \/ \E k \in StoreKeys, f \in {"none", "get"} : GetMetadata(k, f)
    \/ \E k \in StoreKeys, f \in {"none", "put"} : ClearReviews(k, f)
    \/ \E k \in StoreKeys : Evict(k)
    \/ Tick

SpecStore == InitStore /\ [][NextStore]_vars

\* ================================================================ claims
\* The list getReviews returns for key k, were it called now without a fault
Reviews(k) == getReviews(k, "none").out

Range(seq) == {seq[i] : i \in 1..Len(seq)}
Embeds(prompt, text) == \E i \in 1..Len(prompt) : prompt[i] = text

\* The entries built so far under the session name k
BuiltFor(k) == {i \in 1..Len(hist.built) : hist.built[i].key = k}

\* Only successful addReview calls have acted on key k: no clearReviews, and no
\* addReview whose put failed
OnlyAppends(k) ==
    /\ k \notin hist.cleared
    /\ \A i \in BuiltFor(k) : hist.built[i].ok

\* This step is a direct call of addReview on key k that succeeds
AddedOk(k) ==
    /\ last'.op = "addReview" /\ last'.key = k /\ last'.fault = "none"
    /\ Len(hist'.built) = Len(hist.built) + 1

\* C1: a successful addReview leaves the list that getReviews returns equal to
\* the previous list with the returned entry appended, and after N successful
\* addReview calls on a session (and no clearReviews) that list has length N.
C1_AppendKeepsHistory ==
    [][\A k \in Keys : AddedOk(k) =>
          /\ Reviews(k)' = Append(Reviews(k), last'.out[1])
          /\ OnlyAppends(k)' => Len(Reviews(k)') = Cardinality(BuiltFor(k)')]_vars

C1_Witness ==
    /\ last.op = "addReview" /\ last.fault = "none" /\ OnlyAppends(1)
    /\ Len(Reviews(1)) = 2
    /\ Reviews(1)[2] = last.out[1]

\* C2: a valid submit gets the follow-up prompt exactly when the list it read is
\* not empty; the initial prompt is built from code, language and context, the
\* follow-up prompt embeds the review text of the last entry read and of no
\* earlier entry with another text; the response carries the same isFollowUp.
C2_FollowUpRule ==
    \A r \in Slots :
        LET q == req[r]
            n == Len(q.reviews)
        IN  /\ (q.kind = "submit" /\ q.pc \in {"ai", "add"}) =>
                /\ q.isFollowUp = (n > 0)
                /\ n = 0 => q.prompt = createCodeReviewPrompt(q.code, q.language, q.context)
                /\ n > 0 =>
                    /\ Embeds(q.prompt, q.reviews[n].review)
                    /\ \A i \in 1..(n - 1) :
                          q.reviews[i].review # q.reviews[n].review
                              => ~Embeds(q.prompt, q.reviews[i].review)
            /\ (q.kind = "submit" /\ q.pc = "done" /\ q.resp.status = 200) =>
                q.resp.isFollowUp = (n > 0)

C2_Witness ==
    \E r \in Slots :
        /\ req[r].kind = "submit" /\ req[r].pc = "add"
        /\ Len(req[r].reviews) >= 2
        /\ req[r].reviews[1].review # req[r].reviews[Len(req[r].reviews)].review
        /\ req[r].isFollowUp

\* C3: a getReviews that directly follows a successful clearReviews on the same
\* session returns the empty sequence.
C3_ClearThenList ==
    [][(/\ last.op = "clearReviews" /\ last.fault = "none"
        /\ last'.op = "getReviews" /\ last'.fault = "none"
        /\ last'.key = last.key)
       => last'.out = <<>>]_vars

C3_Witness ==
    /\ last.op = "getReviews" /\ last.fault = "none" /\ last.out = <<>>
    /\ last.key \in hist.cleared
    /\ \E i \in BuiltFor(last.key) : hist.built[i].ok
    /\ inst[last.key] # <<>> /\ inst[last.key][1].createdAt < now

\* Every entry held or listed under a session name was built under that name
OwnEntries ==
    /\ \A k \in Keys :
          \A e \in (IF stored[k] = <<>> THEN {} ELSE Range(stored[k][1].reviews))
                   \cup (IF inst[k] = <<>> THEN {} ELSE Range(inst[k][1].reviews)) :
              hist.built[e.id].key = k
    /\ \A r \in Slots :
          \A e \in Range(req[r].resp.reviews) \cup Range(req[r].reviews) :
              hist.built[e.id].key = Addr(req[r])

\* C4: a step of a request addressed to one session name leaves the persisted
\* state and the object of every other key as they were, and no session holds
\* or lists an entry built under another name.
C4_Isolation ==
    [][(\A r \in Slots : req'[r] # req[r] =>
            \A b \in Keys \ {Addr(req'[r])} :
                stored'[b] = stored[b] /\ inst'[b] = inst[b])
       /\ OwnEntries']_vars

C4_Witness ==
    /\ stored[1] # <<>> /\ stored[2] # <<>>
    /\ Len(stored[1][1].reviews) >= 1 /\ Len(stored[2][1].reviews) >= 1
    /\ \E r \in Slots : req[r].kind = "list" /\ req[r].resp.status = 200

\* C5: when the inference call of a submit fails, the request ends with an
\* error response, and neither that step nor the request appends an entry:
\* every session's list and persisted state are the same after the step.
C5_InferenceFailure ==
    [][\A r \in Slots :
          (req'[r].cause = <<"ai", "none">> /\ req[r].cause # <<"ai", "none">>) =>
              /\ req'[r].pc = "done"
              /\ req'[r].resp.status = 500
              /\ req'[r].appended = <<>>
              /\ stored' = stored
              /\ \A k \in Keys : Reviews(k)' = Reviews(k)]_vars

C5_Witness ==
    \E r \in Slots :
        /\ req[r].cause = <<"ai", "none">> /\ req[r].resp.status = 500
        /\ stored[req[r].key] # <<>>

\* C6: a submit whose addReview fails at the storage put is answered by the
\* session with an error (status 500) and by the worker with an error, never
\* with a success response.
C6_PutFailureIsError ==
    \A r \in Slots :
        req[r].cause = <<"add", "put">> =>
            /\ req[r].answer = 500
            /\ req[r].resp.status = 500
            /\ req[r].resp.reviewId = NoId

C6_Witness ==
    \E r \in Slots : req[r].cause = <<"add", "put">> /\ req[r].pc = "done"

\* C7: an entry built by an addReview whose put failed is never in the persisted
\* state and is never returned by getReviews, getReview or getLatestReview.
C7_NoPartialCommit ==
    /\ \A k \in Keys :
          stored[k] # <<>> => \A e \in Range(stored[k][1].reviews) : hist.built[e.id].ok
    /\ last.op \in {"getReviews", "getReview", "getLatestReview"} =>
          \A e \in Range(last.out) : hist.built[e.id].ok

\* C8: a submit without code or without language is answered with status 400 in
\* one step that leaves every session (persisted state and object) and every
\* other request as they were; no inference call follows.
C8_InvalidSubmit ==
    [][\A r \in Slots :
          (/\ req[r].pc = "idle" /\ req'[r].kind = "submit"
           /\ (req'[r].code = "" \/ req'[r].language = "")) =>
              /\ req'[r].pc = "done"
              /\ req'[r].resp.status = 400
              /\ stored' = stored /\ inst' = inst /\ hist' = hist]_vars

C8_Witness ==
    \E r \in Slots :
        /\ req[r].kind = "submit" /\ req[r].code = "c1" /\ req[r].language = ""
        /\ req[r].resp.status = 400
        /\ stored[1] # <<>>

\* C9: a list or clear request without sessionId is answered with status 400 in
\* one step that reads, clears, creates or touches no session.
C9_MissingSessionId ==
    [][\A r \in Slots :
          (/\ req[r].pc = "idle" /\ req'[r].kind \in {"list", "clear"}
           /\ req'[r].sessionId = NoSessionId) =>
              /\ req'[r].pc = "done"
              /\ req'[r].resp.status = 400
              /\ stored' = stored /\ inst' = inst /\ hist' = hist]_vars

C9_Witness ==
    /\ \E r \in Slots : /\ req[r].kind = "list" /\ req[r].sessionId = NoSessionId
                        /\ req[r].resp.status = 400
    /\ \E r \in Slots : /\ req[r].kind = "clear" /\ req[r].sessionId = NoSessionId
                        /\ req[r].resp.status = 400

\* C10: the createdAt in persisted state, and the one getMetadata reports, always
\* equal the createdAt first persisted for the key.
C10_CreatedAtFixed ==
    \A k \in Keys :
        /\ stored[k] # <<>> => stored[k][1].createdAt = hist.created[k]
        /\ (/\ last.op = "getMetadata" /\ last.key = k /\ last.fault = "none"
            /\ hist.created[k] # 0)
              => last.meta[1].createdAt = hist.created[k]

\* This step is a call of a session method on key k (not an eviction, not a tick)
CallStep(k) ==
    /\ now' = now /\ inst'[k] # <<>>
    /\ last'.op # "none" /\ last'.key = k
    /\ (last' # last \/ inst'[k] # inst[k] \/ stored'[k] # stored[k])

\* C11: after every operation that completes on a session, the lastAccessedAt of
\* the object and the persisted lastAccessedAt (the one a re-instantiated object
\* loads) both equal the time of the operation.
C11_LastAccessedAtUpdated ==
    [][\A k \in Keys : (CallStep(k) /\ last'.fault = "none") =>
          /\ inst'[k][1].lastAccessedAt = now'
          /\ stored'[k] # <<>>
          /\ stored'[k][1].lastAccessedAt = now']_vars

\* The position in the sequence seq of the entry with the given id (0 if none)
Position(seq, id) ==
    LET hit == {i \in 1..Len(seq) : seq[i].id = id}
    IN  IF hit = {} THEN 0 ELSE CHOOSE i \in hit : TRUE

\* C12: when two submits for one session key both succeed, the entry of the one
\* that arrived first precedes the entry of the other in the session's list.
C12_ArrivalOrder ==
    \A r1, r2 \in Slots :
        (/\ r1 < r2
         /\ req[r1].appended # <<>> /\ req[r2].appended # <<>>
         /\ req[r1].key = req[r2].key
         /\ Position(Reviews(req[r1].key), req[r1].appended[1]) > 0
         /\ Position(Reviews(req[r1].key), req[r2].appended[1]) > 0)
        => Position(Reviews(req[r1].key), req[r1].appended[1])
               < Position(Reviews(req[r1].key), req[r2].appended[1])

\* This step ends the submit of slot r with a success response
SubmitSucceeds(r) ==
    /\ req[r].kind = "submit" /\ req[r].pc = "add"
    /\ req'[r].pc = "done" /\ req'[r].resp.status = 200

\* The list persisted for key k (empty if nothing is persisted)
Persisted(k) == IF stored[k] = <<>> THEN <<>> ELSE stored[k][1].reviews

\* C13: the step that ends a submit with success appends one entry to the
\* session named in the response and leaves every other session as it was; the
\* name is the caller's sessionId if one was sent and else a name nobody used
\* before the request; reviewId and review of the response are those of the
\* entry; of two successful submits, the second begun after the first ended,
\* the entry of the first precedes the entry of the second.
C13_SubmitAppendsOne ==
    [][/\ \A r \in Slots : SubmitSucceeds(r) =>
            /\ req'[r].resp.sessionId \in Keys
            /\ req[r].sessionId # NoSessionId => req'[r].resp.sessionId = req[r].sessionId
            /\ \A k \in Keys : k = req'[r].resp.sessionId =>
                  \E e \in Range(Persisted(k)') :
                    /\ Reviews(k)' = Append(Reviews(k), e)
                    /\ Persisted(k)' = Append(Persisted(k), e)
                    /\ e.id = req'[r].resp.reviewId
                    /\ e.review = req'[r].resp.review
                    /\ e.code = req[r].code /\ e.language = req[r].language
                    /\ req'[r].appended = <<e.id>>
                    /\ \A j \in Keys \ {k} : stored'[j] = stored[j] /\ inst'[j] = inst[j]
       /\ \A r \in Slots :
            (/\ req[r].pc = "idle" /\ req'[r].kind = "submit" /\ req'[r].pc = "ai"
             /\ req'[r].sessionId = NoSessionId)
                => \A k \in Keys : k = req'[r].key => (k \notin used /\ stored[k] = <<>>)
       /\ \A r1, r2 \in Slots, k \in Keys :
            (/\ req'[r1].appended # <<>> /\ req'[r2].appended # <<>>
             /\ k = req'[r2].key
             /\ Position(req'[r2].reviews, req'[r1].appended[1]) > 0
             /\ Position(Reviews(k)', req'[r1].appended[1]) > 0
             /\ Position(Reviews(k)', req'[r2].appended[1]) > 0)
                => Position(Reviews(k)', req'[r1].appended[1])
                       < Position(Reviews(k)', req'[r2].appended[1])]_vars

C13_Witness ==
    \E r1, r2 \in Slots :
        /\ req[r1].appended # <<>> /\ req[r2].appended # <<>>
        /\ req[r1].sessionId = NoSessionId /\ req[r2].sessionId = req[r1].resp.sessionId
        /\ req[r1].resp.status = 200 /\ req[r2].resp.status = 200
        /\ Position(req[r2].reviews, req[r1].appended[1]) > 0
        /\ Len(Reviews(req[r2].key)) = 2
        /\ Reviews(req[r2].key)[1].id = req[r1].resp.reviewId
        /\ Reviews(req[r2].key)[2].id = req[r2].resp.reviewId

\* Every addReview that built an entry under the name k completed
AllAddsOk(k) == \A i \in BuiltFor(k) : hist.built[i].ok

\* This step discards the object of key k
Discarded(k) == inst[k] # <<>> /\ inst'[k] = <<>>

\* C14: discarding the object of a session on which every addReview completed
\* leaves the list that getReviews returns as it was: the re-created object
\* returns what the discarded one would have returned.
C14_DurableHistory ==
    [][\A k \in Keys : (Discarded(k) /\ AllAddsOk(k)) =>
          /\ Reviews(k)' = Reviews(k)
          /\ Reviews(k)' = Persisted(k)']_vars

C14_Witness ==
    /\ inst[1] = <<>> /\ AllAddsOk(1)
    /\ 1 \in hist.cleared
    /\ Len(Persisted(1)) >= 1
    /\ Reviews(1) = Persisted(1)

\* The last direct call was op on an object that is still in memory, and it
\* completed
Completed(op) ==
    /\ last.op = op /\ last.fault = "none"
    /\ inst[last.key] # <<>>

\* C15: getLatestReview returns the last element of the list getReviews returns
\* for the session, and null when that list is empty.
C15_LatestIsLast ==
    Completed("getLatestReview") =>
        LET list == Reviews(last.key)
        IN  last.out = IF Len(list) = 0 THEN <<>> ELSE <<list[Len(list)]>>

C15_Witness ==
    /\ Completed("getLatestReview")
    /\ Len(Reviews(last.key)) = 2
    /\ last.out = <<Reviews(last.key)[2]>>

C15_WitnessEmpty ==
    /\ Completed("getLatestReview")
    /\ last.out = <<>>
    /\ last.key \in hist.cleared
    /\ \E i \in BuiltFor(last.key) : hist.built[i].ok

\* C16: getReview(id) completes with the entry of the session's list whose id is
\* the argument, or with null when the list (empty after a clear) has no such
\* entry; it returns no entry with another id.
C16_GetReviewById ==
    Completed("getReview") =>
        LET list == Reviews(last.key)
            p == Position(list, last.arg)
        IN  /\ last.out = IF p = 0 THEN <<>> ELSE <<list[p]>>
            /\ \A e \in Range(last.out) : e.id = last.arg

C16_Witness ==
    /\ Completed("getReview")
    /\ Len(Reviews(last.key)) = 2
    /\ last.out = <<Reviews(last.key)[2]>>

C16_WitnessAbsent ==
    /\ Completed("getReview")
    /\ last.out = <<>>
    /\ last.key \in hist.cleared
    /\ last.arg \in BuiltFor(last.key) /\ hist.built[last.arg].ok

\* C17: a call of getMetadata leaves the persisted state of every key as it was
\* (a key without a persisted record stays without one), and the reviewCount it
\* returns is the length of the list getReviews returns for the session.
C17_MetadataReadOnly ==
    [][\A k \in Keys : (CallStep(k) /\ last'.op = "getMetadata") =>
          /\ stored' = stored
          /\ last'.fault = "none" =>
                last'.meta[1].reviewCount = Len(Reviews(k)')]_vars

C17_Witness ==
    /\ Completed("getMetadata")
    /\ stored[last.key] # <<>>
    /\ last.meta[1].reviewCount = 2
    /\ last.meta[1].lastAccessedAt > stored[last.key][1].lastAccessedAt

C17_WitnessUnseen ==
    /\ Completed("getMetadata")
    /\ stored[last.key] = <<>>
    /\ last.meta[1].reviewCount = 0

\* C18: a clearReviews that completes on a session whose persisted list is
\* already empty (after an earlier clearReviews, or never filled) leaves the
\* list empty and the persisted createdAt as it was.
C18_ClearIdempotent ==
    [][\A k \in Keys :
          (/\ CallStep(k) /\ last'.op = "clearReviews" /\ last'.fault = "none"
           /\ stored[k] # <<>> /\ stored[k][1].reviews = <<>>) =>
              /\ Reviews(k)' = <<>>
              /\ stored'[k][1].reviews = <<>>
              /\ stored'[k][1].createdAt = stored[k][1].createdAt]_vars

\* C19: when an operation completes on a key that has no persisted record, a
\* persisted SessionState exists afterwards; if no entry was built for the key
\* before, its list is empty, or the one appended entry after addReview.
C19_LazyCreation ==
    [][\A k \in Keys : (CallStep(k) /\ last'.fault = "none" /\ stored[k] = <<>>) =>
          /\ stored'[k] # <<>>
          /\ BuiltFor(k) = {} =>
                stored'[k][1].reviews =
                    IF last'.op = "addReview" THEN last'.out ELSE <<>>]_vars

\* C20: when an operation on a newly constructed object puts a state while a
\* persisted record exists for the key, the state put derives from the record
\* (it keeps the record's createdAt), not from the constructor's defaults.
C20_LoadBeforePut ==
    [][\A k \in Keys :
          (/\ CallStep(k) /\ inst[k] = <<>>
           /\ stored[k] # <<>> /\ stored'[k] # stored[k]) =>
              stored'[k][1].createdAt = stored[k][1].createdAt]_vars

\* This step is a clear request on key k that the session answered with success
ClearedOk(k) ==
    \E r \in Slots : /\ req[r].pc = "idle" /\ req'[r].kind = "clear"
                     /\ req'[r].key = k /\ req'[r].resp.status = 200

\* C21: an entry that a completed addReview persisted stays in the persisted
\* list, and in the list getReviews returns, over every step of every request
\* that is not a successful clear of its session; so on a session never cleared
\* the entry of every successful submit is listed.
C21_NoLostUpdates ==
    [][\A k \in Keys :
          /\ ~ClearedOk(k) =>
                \A e \in Range(Persisted(k)) :
                    e \in Range(Persisted(k)') /\ e \in Range(Reviews(k)')
          /\ k \notin hist'.cleared =>
                \A r \in Slots :
                    (req'[r].key = k /\ req'[r].appended # <<>>) =>
                        Position(Reviews(k)', req'[r].appended[1]) > 0]_vars

C21_Witness ==
    \E r1, r2 \in Slots :
        /\ r1 < r2 /\ req[r1].key = req[r2].key
        /\ req[r1].appended # <<>> /\ req[r2].appended # <<>>
        /\ req[r1].reviews = req[r2].reviews
        /\ Position(Reviews(req[r1].key), req[r1].appended[1]) > 0
        /\ Position(Reviews(req[r1].key), req[r2].appended[1]) > 0

\* C22: the isFollowUp of a successful submit's response is false exactly when
\* the entry the request stored is the first element of the session's list at
\* the moment of the append, and true exactly when an entry precedes it.
C22_FollowUpMatchesPosition ==
    [][\A r \in Slots, k \in Keys :
          (SubmitSucceeds(r) /\ k = req[r].key) =>
              req'[r].resp.isFollowUp
                  = (Position(Persisted(k)', req'[r].appended[1]) > 1)]_vars

\* C23: when a follow-up submit succeeds, the element directly before the entry
\* it appends is the entry whose review its prompt embedded, the last one of
\* the list the request read.
C23_FollowUpAfterReferenced ==
    [][\A r \in Slots, k \in Keys :
          (SubmitSucceeds(r) /\ k = req[r].key /\ req[r].isFollowUp) =>
              LET p == Position(Persisted(k)', req'[r].appended[1])
              IN  /\ p > 1
                  /\ Persisted(k)'[p - 1] = latestReview(req[r].reviews)]_vars

\* The request of slot r has its response, with the given status
Answered(r, status) == req[r].pc = "done" /\ req[r].resp.status = status

\* C24: every request that has arrived gets a response in the end (200, 400 or
\* 500), whatever the session and the inference call answer, and the response
\* it has got stays its response.
C24_EveryRequestAnswered ==
    \A r \in Slots :
        /\ (req[r].pc # "idle") ~> (\E s \in {200, 400, 500} : Answered(r, s))
        /\ \A s \in {200, 400, 500} : [](Answered(r, s) => []Answered(r, s))

C24_Witness ==
    /\ \E r \in Slots : Answered(r, 500) /\ req[r].cause = <<"add", "put">>
    /\ \E r \in Slots : Answered(r, 500) /\ req[r].cause = <<"ai", "none">>

====
